---- MODULE Spec2Model ----
(***************************************************************************)
(* Signal conditioning and mapping engine of flight_stick_reader.py:       *)
(* per-channel calibration of the auxiliary panel (ControlPanelConfig),    *)
(* the toggle state machine inside FlightControls.process_control_panel,   *)
(* and the throttle-quadrant calibration laws of FlightControls.           *)
(*                                                                         *)
(* Python floats are modelled as exact rationals [n |-> , d |-> ] in       *)
(* lowest terms with d > 0; raw samples, thresholds and calibration        *)
(* bounds are integers.                                                    *)
(***************************************************************************)
EXTENDS Integers, Sequences, FiniteSets, TLC

VARIABLES
    pot_config,                 \* ControlPanelConfig.pot_config, channel 0..6
    button_states,              \* FlightControls.button_states   (dict)
    last_pot_values,            \* FlightControls.last_pot_values (dict)
    controls_active,            \* FlightControls.controls_active (True when absent)
    vjoy_dev,                   \* FlightControls.vjoy_dev: None or the device data
    release_timers,             \* pending root.after(500, release_button_bit) calls
    last_control_panel_values,  \* FlightControlGUI.last_control_panel_values
    processed_values,           \* value returned by the last process_control_panel
    writes,                     \* command process_control_panel issued per channel in
                                \* the handler that ran last (none for other handlers)
    vjoy_updates,               \* vjoy_dev.update() calls made by the last handler
    op,                         \* name of the handler that ran last
    trace,                      \* history of the panel lines processed so far
    used,                       \* (channel, button id) pairs that have been toggled on
    calibration,                \* FlightControls.calibration
    invert_axis,                \* FlightControls.invert_axis
    last_raw_values,            \* FlightControlGUI.last_raw_values
    cal_result,                 \* what the last apply_mapping call computed
    cal_steps,                  \* calibration and inversion commands given so far
    controller_type,            \* FlightControls.controller_type
    current_profile,            \* FlightControls.current_profile
    gamepad,                    \* values last set on FlightControls.gamepad
    gamepad_calls,              \* gamepad setters the last apply_mapping call invoked
    control_panel_loops,        \* control_panel_loop threads that are running
    panel_call,                 \* what a panel thread inside process_control_panel
                                \* has computed and not yet written ({} when none is)
    gui_controls_active,        \* FlightControlGUI.controls_active
    settings_file               \* settings/flight_controls.json: {} when there is
                                \* none, else the one dictionary it holds

panelVars == <<pot_config, button_states, last_pot_values, controls_active,
               vjoy_dev, release_timers, last_control_panel_values,
               processed_values, writes, vjoy_updates, op, trace, used>>
mappingVars == <<controller_type, current_profile, gamepad, gamepad_calls>>
throttleVars == <<calibration, invert_axis, last_raw_values, cal_result, cal_steps,
                  mappingVars>>
guiVars == <<control_panel_loops, panel_call, gui_controls_active, settings_file>>
vars == <<panelVars, throttleVars, guiVars>>

None == "None"

-----------------------------------------------------------------------------
(* Bounds of the model                                                     *)

\* longest history of panel lines kept in trace
MaxTrace == 4
\* most root.after release callbacks pending at once
MaxTimers == 1
\* most calibration and inversion commands given in a session
MaxCalSteps == 2
\* most control_panel_loop threads alive at once
MaxLoops == 2
\* channels that carry a value on the serial line of the sample specifications
SamplePots == {0, 1}
\* channels whose configuration the GUI changes in SpecPanel
DynamicPots == {0}

-----------------------------------------------------------------------------
(* Program constants                                                       *)

NumPots == 7
RawHigh == 1023

CONTROL_TYPES == {"Axis", "Switch", "Button", "Disabled"}
VJOY_AXES == {"X", "Y", "Z", "RX", "RY", "RZ", "SL0", "SL1"}
Pots == 0 .. (NumPots - 1)

-----------------------------------------------------------------------------
(* Exact arithmetic standing for Python's float arithmetic                 *)

Abs(x) == IF x < 0 THEN -x ELSE x

RECURSIVE Gcd(_, _)
Gcd(a, b) == IF b = 0 THEN a ELSE Gcd(b, a % b)

Rat(n, d) ==
    LET s == IF d < 0 THEN -1 ELSE 1
        g == Gcd(Abs(n), Abs(d))
    IN  [n |-> (s * n) \div g, d |-> (s * d) \div g]

RInt(k) == [n |-> k, d |-> 1]
RLt(a, b) == a.n * b.d < b.n * a.d
RLe(a, b) == a.n * b.d <= b.n * a.d
RGt(a, b) == RLt(b, a)
RSub(a, b) == Rat(a.n * b.d - b.n * a.d, a.d * b.d)
RMulInt(a, k) == Rat(a.n * k, a.d)
RMax(a, b) == IF RLt(a, b) THEN b ELSE a
RMin(a, b) == IF RLt(b, a) THEN b ELSE a
\* max(lo, min(hi, x))
RClamp(lo, hi, x) == RMax(lo, RMin(hi, x))

IMax(a, b) == IF a < b THEN b ELSE a
IMin(a, b) == IF b < a THEN b ELSE a

\* int(x): truncation toward zero
RTrunc(a) == IF a.n >= 0 THEN a.n \div a.d ELSE -((-a.n) \div a.d)

\* int(value * 327.68), 327.68 being 8192 / 25
AxisValue(p) == RTrunc(Rat(p.n * 8192, p.d * 25))

-----------------------------------------------------------------------------
(* ControlPanelConfig                                                      *)

DefaultPot ==
    [type |-> "Axis", invert |-> FALSE, threshold |-> 50,
     vjoy_axis |-> None, button_id |-> None,
     calibrated_min |-> 0, calibrated_max |-> 100]

DefaultPotConfig == [i \in Pots |-> DefaultPot]

\* the calibrated percentage of process_pot_value before the type switch
Mut_CalibratedPotNoFallback(config, raw_value) ==
    LET raw == IMax(0, IMin(RawHigh, raw_value))
        cal_min == config.calibrated_min
        cal_max == config.calibrated_max
        calibrated ==
            IF cal_max = cal_min
            THEN RInt(50)
            ELSE RClamp(RInt(0), RInt(100),
                        Rat((raw - cal_min) * 100, cal_max - cal_min))
    IN  IF config.invert THEN RSub(RInt(100), calibrated) ELSE calibrated

CalibratedPot(config, raw_value) ==
    LET raw == IMax(0, IMin(RawHigh, raw_value))
        invalid == config.calibrated_min >= config.calibrated_max
        cal_min == IF invalid THEN 0 ELSE config.calibrated_min
        cal_max == IF invalid THEN RawHigh ELSE config.calibrated_max
        calibrated ==
            IF cal_max = cal_min
            THEN RInt(50)
            ELSE RClamp(RInt(0), RInt(100),
                        Rat((raw - cal_min) * 100, cal_max - cal_min))
    IN  IF config.invert THEN RSub(RInt(100), calibrated) ELSE calibrated

\* calibrated > config['threshold'] of process_pot_value
ExceedsThreshold(calibrated, threshold) == RGt(calibrated, RInt(threshold))

BinaryPercent(above) == IF above THEN RInt(100) ELSE RInt(0)

\* mutant of process_pot_value: no early return for a Disabled channel
Mut_ProcessPotValueNoDisabled(pc, index, raw_value) ==
    IF index < 0 \/ index >= NumPots
    THEN RInt(0)
    ELSE LET config == pc[index]
             calibrated == CalibratedPot(config, raw_value)
         IN  IF config.type \in {"Switch", "Button"}
             THEN BinaryPercent(ExceedsThreshold(calibrated, config.threshold))
             ELSE calibrated

process_pot_value(pc, index, raw_value) ==
    IF index < 0 \/ index >= NumPots
    THEN RInt(0)
    ELSE LET config == pc[index]
             calibrated == CalibratedPot(config, raw_value)
         IN  IF config.type = "Disabled" THEN RInt(0)
             ELSE IF config.type = "Axis" THEN calibrated
             ELSE IF config.type \in {"Switch", "Button"}
                  THEN BinaryPercent(ExceedsThreshold(calibrated, config.threshold))
                  ELSE calibrated

-----------------------------------------------------------------------------
(* FlightControls: the vJoy device and the toggle dictionaries             *)

\* self.vjoy_dev after FlightControls.__init__ succeeded; lButtons is the
\* set of button numbers whose bit (number - 1) is set in the button word
VJoyAfterInit ==
    [attached |-> TRUE,
     wAxisX |-> 16384, wAxisY |-> 16384, wAxisZ |-> 16384, wAxisXRot |-> 0,
     wAxisYRot |-> 0, wAxisZRot |-> 0, wSlider |-> 0, wDial |-> 0,
     lButtons |-> {}]

\* self.vjoy_dev = None after the constructor's except branch
VJoyNone == [VJoyAfterInit EXCEPT !.attached = FALSE, !.wAxisX = 0,
                                  !.wAxisY = 0, !.wAxisZ = 0]

EmptyDict == [k \in {} |-> 0]
DictGet(d, k, default) == IF k \in DOMAIN d THEN d[k] ELSE default
DictPut(d, k, v) == [x \in (DOMAIN d) \cup {k} |-> IF x = k THEN v ELSE d[x]]

\* the decimal texts the GUI entry hands to set_pot_button_id
Numerals == <<"1", "2", "3", "4", "5", "6", "7", "8", "9">>
ButtonTexts == {Numerals[1], Numerals[2]}
\* int(config['button_id'])
ButtonIdInt(text) == CHOOSE k \in 1 .. Len(Numerals) : Numerals[k] = text

\* mutant of ButtonKey: the key names the channel only
Mut_ButtonKeyByPot(i, button_id) == <<i, 0>>

\* button_key = f"pot_{i}_button_{button_id}"
ButtonKey(i, button_id) == <<i, button_id>>

\* mutant of ThresholdState: "at least" instead of "greater than"
Mut_ThresholdStateAtLeast(processed, threshold) == RLe(RInt(threshold), processed)

\* current_threshold_state = processed > config['threshold']
ThresholdState(processed, threshold) == RGt(processed, RInt(threshold))

\* mutants of RisingEdge: a toggle on either edge, and a toggle on every
\* sample above the threshold
Mut_AnyEdge(previous_threshold_state, current_threshold_state) ==
    current_threshold_state # previous_threshold_state
Mut_LevelTriggered(previous_threshold_state, current_threshold_state) ==
    current_threshold_state

\* the branch "if current_threshold_state != previous_threshold_state:
\*                 if current_threshold_state:" of a Switch channel
RisingEdge(previous_threshold_state, current_threshold_state) ==
    current_threshold_state # previous_threshold_state /\ current_threshold_state

NoWrite == [kind |-> "none", target |-> None, value |-> 0]
AxisWrite(axis, value) == [kind |-> "axis", target |-> axis, value |-> value]
ButtonWrite(id, state) == [kind |-> "button", target |-> Numerals[id], value |-> state]

\* the if/elif chain that stores axis_value in the device data
SetAxis(dev, axis, axis_value) ==
    IF axis = "X" THEN [dev EXCEPT !.wAxisX = axis_value]
    ELSE IF axis = "Y" THEN [dev EXCEPT !.wAxisY = axis_value]
    ELSE IF axis = "Z" THEN [dev EXCEPT !.wAxisZ = axis_value]
    ELSE IF axis = "RX" THEN [dev EXCEPT !.wAxisXRot = axis_value]
    ELSE IF axis = "RY" THEN [dev EXCEPT !.wAxisYRot = axis_value]
    ELSE IF axis = "RZ" THEN [dev EXCEPT !.wAxisZRot = axis_value]
    ELSE IF axis = "SL0" THEN [dev EXCEPT !.wSlider = axis_value]
    ELSE IF axis = "SL1" THEN [dev EXCEPT !.wDial = axis_value]
    ELSE dev

\* mutant of SetButtonBit: the bit is set but never cleared
Mut_SetButtonBitNoClear(dev, button_id, button_state) ==
    IF button_state # 0 THEN [dev EXCEPT !.lButtons = @ \cup {button_id}] ELSE dev

\* lButtons | button_mask  and  lButtons & ~button_mask
SetButtonBit(dev, button_id, button_state) ==
    IF button_state # 0
    THEN [dev EXCEPT !.lButtons = @ \cup {button_id}]
    ELSE [dev EXCEPT !.lButtons = @ \ {button_id}]

\* mutant of ButtonStep: the button word is replaced by the mask, or cleared
Mut_ButtonStepReplacesWord(i, config, processed, acc) ==
    LET button_id == ButtonIdInt(config.button_id)
        button_key == ButtonKey(i, button_id)
        current_threshold_state == ThresholdState(processed, config.threshold)
        previous_threshold_state == DictGet(acc.last_pot_values, button_key, FALSE)
        toggled ==
            IF config.type = "Switch"
            THEN IF RisingEdge(previous_threshold_state, current_threshold_state)
                 THEN DictPut(acc.button_states, button_key,
                              IF DictGet(acc.button_states, button_key, 0) = 0
                              THEN 1 ELSE 0)
                 ELSE acc.button_states
            ELSE DictPut(acc.button_states, button_key,
                         IF current_threshold_state THEN 1 ELSE 0)
        button_state == DictGet(toggled, button_key, 0)
    IN  [acc EXCEPT
            !.button_states = toggled,
            !.last_pot_values = DictPut(@, button_key, current_threshold_state),
            !.dev = [@ EXCEPT !.lButtons = IF button_state # 0 THEN {button_id} ELSE {}],
            !.writes[i] = ButtonWrite(button_id, button_state)]

\* the Switch/Button branch of the loop body of process_control_panel
ButtonStep(i, config, processed, acc) ==
    LET button_id == ButtonIdInt(config.button_id)
        button_key == ButtonKey(i, button_id)
        current_threshold_state == ThresholdState(processed, config.threshold)
        previous_threshold_state == DictGet(acc.last_pot_values, button_key, FALSE)
        toggled ==
            IF config.type = "Switch"
            THEN IF RisingEdge(previous_threshold_state, current_threshold_state)
                 THEN DictPut(acc.button_states, button_key,
                              IF DictGet(acc.button_states, button_key, 0) = 0
                              THEN 1 ELSE 0)
                 ELSE acc.button_states
            ELSE DictPut(acc.button_states, button_key,
                         IF current_threshold_state THEN 1 ELSE 0)
        button_state == DictGet(toggled, button_key, 0)
    IN  [acc EXCEPT
            !.button_states = toggled,
            !.last_pot_values = DictPut(@, button_key, current_threshold_state),
            !.dev = SetButtonBit(@, button_id, button_state),
            !.writes[i] = ButtonWrite(button_id, button_state)]

\* one iteration of "for i, raw_value in enumerate(pot_values)"
PotStep(i, raw_value, acc) ==
    LET config == pot_config[i]
        processed == process_pot_value(pot_config, i, raw_value)
        acc1 == [acc EXCEPT !.processed_values = Append(@, processed)]
    IN  IF ~controls_active THEN acc1
        ELSE IF config.type = "Axis" /\ config.vjoy_axis # None
        THEN [acc1 EXCEPT
                !.dev = SetAxis(@, config.vjoy_axis, AxisValue(processed)),
                !.writes[i] = AxisWrite(config.vjoy_axis, AxisValue(processed))]
        ELSE IF config.type \in {"Switch", "Button"} /\ config.button_id # None
        THEN ButtonStep(i, config, processed, acc1)
        ELSE acc1

RECURSIVE ProcessPots(_, _, _)
ProcessPots(pot_values, k, acc) ==
    IF k > Len(pot_values) \/ k - 1 >= NumPots
    THEN acc
    ELSE ProcessPots(pot_values, k + 1, PotStep(k - 1, pot_values[k], acc))

\* FlightControls.process_control_panel(pot_values): the new dictionaries,
\* device data, returned list and the commands issued
process_control_panel(pot_values) ==
    LET start == [button_states |-> button_states,
                  last_pot_values |-> last_pot_values,
                  dev |-> vjoy_dev,
                  processed_values |-> <<>>,
                  writes |-> [i \in Pots |-> NoWrite],
                  updates |-> 0]
    IN  IF ~vjoy_dev.attached
        THEN [start EXCEPT
                !.processed_values = [k \in 1 .. Len(pot_values) |-> RInt(pot_values[k])]]
        ELSE [ProcessPots(pot_values, 1, start) EXCEPT !.updates = 1]

\* "while len(raw_values) < 7: raw_values.append(0)" of control_panel_loop
RECURSIVE PadLine(_)
PadLine(raw_values) ==
    IF Len(raw_values) < NumPots THEN PadLine(Append(raw_values, 0)) ELSE raw_values

\* pairs (channel, button id) a call toggles: Switch or Button channels with
\* a button id, when the device is attached and the controls are active
Toggled ==
    IF vjoy_dev.attached /\ controls_active
    THEN {<<i, ButtonIdInt(pot_config[i].button_id)>> :
            i \in {j \in Pots : /\ pot_config[j].type \in {"Switch", "Button"}
                                /\ pot_config[j].button_id # None}}
    ELSE {}

\* button_states.get(button_key, 0) for channel i under its configured id
LatchIn(states, i) ==
    IF pot_config[i].button_id = None THEN 0
    ELSE DictGet(states, ButtonKey(i, ButtonIdInt(pot_config[i].button_id)), 0)

\* last_pot_values.get(button_key, False) for channel i under its configured id
StoredThresholdState(i) ==
    IF pot_config[i].button_id = None THEN FALSE
    ELSE DictGet(last_pot_values,
                 ButtonKey(i, ButtonIdInt(pot_config[i].button_id)), FALSE)

\* one line of control_panel_loop: pad, store, process; r is the outcome
\* of process_control_panel on the padded line
Mut_ControlPanelLineWidensRange(line, r) ==
    /\ last_control_panel_values' = line
    /\ button_states' = r.button_states
    /\ last_pot_values' = r.last_pot_values
    /\ vjoy_dev' = r.dev
    /\ processed_values' = r.processed_values
    /\ writes' = r.writes
    /\ vjoy_updates' = r.updates
    /\ op' = "line"
    /\ used' = used \cup Toggled
    /\ pot_config' = [pot_config EXCEPT ![0].calibrated_max = IMax(@, line[1])]
    /\ UNCHANGED <<controls_active, release_timers>>
    /\ UNCHANGED throttleVars
    /\ panel_call' = {}
    /\ UNCHANGED <<control_panel_loops, gui_controls_active, settings_file>>

ControlPanelLine(line, r) ==
    /\ last_control_panel_values' = line
    /\ button_states' = r.button_states
    /\ last_pot_values' = r.last_pot_values
    /\ vjoy_dev' = r.dev
    /\ processed_values' = r.processed_values
    /\ writes' = r.writes
    /\ vjoy_updates' = r.updates
    /\ op' = "line"
    /\ used' = used \cup Toggled
    /\ UNCHANGED <<pot_config, controls_active, release_timers>>
    /\ UNCHANGED throttleVars
    /\ panel_call' = {}
    /\ UNCHANGED <<control_panel_loops, gui_controls_active, settings_file>>

-----------------------------------------------------------------------------
(* FlightControls: calibration of the throttle quadrant                    *)

CONTROLS == {"throttle", "reverse", "prop", "mixture"}

\* a float division by zero raises ZeroDivisionError; the exception is the
\* value of every expression it passes through
ZeroDivisionError == [n |-> 0, d |-> 0]

\* a / b
RDiv(a, b) == IF b = 0 THEN ZeroDivisionError ELSE Rat(a, b)

Mut_UnclampedPercent(ratio) ==
    IF ratio = ZeroDivisionError THEN ZeroDivisionError
    ELSE RMulInt(ratio, 100)

\* ratio = max(0.0, min(1.0, ratio)); return ratio * 100.0
ClampedPercent(ratio) ==
    IF ratio = ZeroDivisionError THEN ZeroDivisionError
    ELSE RMulInt(RClamp(RInt(0), RInt(1), ratio), 100)

Mut_CalibrateSimpleNoZeroWidthGuard(cal, value, control_type) ==
    LET c == cal[control_type]
    IN  IF value <= c.idle THEN RInt(0)
        ELSE ClampedPercent(RDiv(value - c.idle, c.max - c.idle))

\* FlightControls.calibrate_simple
calibrate_simple(cal, value, control_type) ==
    LET c == cal[control_type]
    IN  IF value <= c.idle THEN RInt(0)
        ELSE IF c.max = c.idle THEN RInt(100)
        ELSE ClampedPercent(RDiv(value - c.idle, c.max - c.idle))

Mut_CalibrateThrottleStrictIdle(cal, value) ==
    LET c == cal["throttle"]
    IN  IF value < c.idle THEN RInt(0)
        ELSE IF c.max = c.idle THEN RInt(100)
        ELSE ClampedPercent(RDiv(value - c.idle, c.max - c.idle))

\* FlightControls.calibrate_throttle
calibrate_throttle(cal, value) ==
    LET c == cal["throttle"]
    IN  IF value <= c.idle THEN RInt(0)
        ELSE IF c.max = c.idle THEN RInt(100)
        ELSE ClampedPercent(RDiv(value - c.idle, c.max - c.idle))

Mut_CalibrateReverseNotMirrored(cal, value) ==
    LET c == cal["reverse"]
    IN  IF value >= c.idle THEN RInt(0)
        ELSE IF c.idle = c.min THEN RInt(100)
        ELSE ClampedPercent(RDiv(value - c.min, c.idle - c.min))

\* FlightControls.calibrate_reverse
calibrate_reverse(cal, value) ==
    LET c == cal["reverse"]
    IN  IF value >= c.idle THEN RInt(0)
        ELSE IF c.idle = c.min THEN RInt(100)
        ELSE ClampedPercent(RDiv(c.idle - value, c.idle - c.min))

\* FlightControls.apply_inversion
apply_inversion(inv, value, control_type) ==
    IF value = ZeroDivisionError THEN ZeroDivisionError
    ELSE IF inv[control_type] THEN RSub(RInt(100), value)
    ELSE value

Mut_ProcessThrottleInputOneFlag(cal, inv, raw_value) ==
    LET forward == calibrate_throttle(cal, raw_value)
        reverse == calibrate_reverse(cal, raw_value)
    IN  [forward_calibrated |-> forward,
         reverse_calibrated |-> reverse,
         forward |-> apply_inversion(inv, forward, "throttle"),
         reverse |-> apply_inversion(inv, reverse, "throttle")]

\* FlightControls.process_throttle_input: the calibrated pair and the pair it
\* returns
process_throttle_input(cal, inv, raw_value) ==
    LET forward == calibrate_throttle(cal, raw_value)
        reverse == calibrate_reverse(cal, raw_value)
    IN  [forward_calibrated |-> forward,
         reverse_calibrated |-> reverse,
         forward |-> apply_inversion(inv, forward, "throttle"),
         reverse |-> apply_inversion(inv, reverse, "reverse")]

\* the profiles in the order of the ControlProfile enumeration
ControlProfile == <<"MSFS", "DCS", "XPLANE", "IL2", "WAR_THUNDER">>
ControllerType == {"XBOX", "VJOY"}

\* int(value * 327.67), 327.67 being 32767 / 100
TriggerValue(p) == RTrunc(Rat(p.n * 32767, p.d * 100))
\* int(value * 655.34 - 32768), 655.34 being 32767 / 50
StickValue(p) == RTrunc(Rat(p.n * 32767 - 32768 * 50 * p.d, p.d * 50))
\* int((value + 100) * 163.835), 163.835 being 32767 / 200
Il2TriggerValue(p) == RTrunc(Rat((p.n + 100 * p.d) * 32767, p.d * 200))
\* abs(throttle)
RAbs(a) == [n |-> Abs(a.n), d |-> a.d]

\* the setters of the gamepad a mapping function may call
GamepadSetters ==
    {"right_trigger", "left_trigger", "left_joystick", "right_joystick"}

\* the outcome of a mapping function: the gamepad it leaves, the setters it
\* called, and the exception a call raised ("none" when it returned)
GamepadOutcome(gp, calls, raised) ==
    [gamepad |-> gp, calls |-> calls, raised |-> raised]

\* FlightControls.map_controls_msfs
map_controls_msfs(gp, throttle, prop, mixture) ==
    GamepadOutcome([gp EXCEPT
                !.right_trigger =
                    IF RLe(RInt(0), throttle) THEN TriggerValue(throttle) ELSE 0,
                !.left_trigger =
                    IF RLe(RInt(0), throttle) THEN 0
                    ELSE TriggerValue(RAbs(throttle)),
                !.right_joystick = [x_value |-> 0, y_value |-> StickValue(prop)],
                !.left_joystick = [x_value |-> 0, y_value |-> StickValue(mixture)]],
            GamepadSetters, "none")

\* FlightControls.map_controls_dcs
map_controls_dcs(gp, throttle, prop, mixture) ==
    GamepadOutcome([gp EXCEPT
                !.left_joystick = [x_value |-> StickValue(prop),
                                   y_value |-> StickValue(throttle)],
                !.right_joystick = [x_value |-> 0,
                                    y_value |-> StickValue(mixture)]],
            {"left_joystick", "right_joystick"}, "none")

\* FlightControls.map_controls_xplane: each branch sets one trigger and leaves
\* the other as it was
map_controls_xplane(gp, throttle, prop, mixture) ==
    LET stick == [x_value |-> StickValue(mixture), y_value |-> StickValue(prop)]
    IN  IF RLe(RInt(0), throttle)
        THEN GamepadOutcome([gp EXCEPT !.right_trigger = TriggerValue(throttle),
                                !.right_joystick = stick],
                     {"right_trigger", "right_joystick"}, "none")
        ELSE GamepadOutcome([gp EXCEPT !.left_trigger = TriggerValue(RAbs(throttle)),
                                !.right_joystick = stick],
                     {"left_trigger", "right_joystick"}, "none")

\* FlightControls.map_controls_il2.  Its last call passes left_joystick only
\* y_value; whether the gamepad library accepts a call without x_value is
\* not decided by this repository, so both outcomes are modelled: the call
\* sets y_value alone, or it raises after both triggers were set
map_controls_il2(gp, throttle, prop, mixture, y_only_accepted) ==
    LET triggers == [gp EXCEPT !.left_trigger = Il2TriggerValue(mixture),
                               !.right_trigger = Il2TriggerValue(prop)]
    IN  IF y_only_accepted
        THEN GamepadOutcome([triggers EXCEPT
                         !.left_joystick.y_value = StickValue(throttle)],
                     {"left_trigger", "right_trigger", "left_joystick"}, "none")
        ELSE GamepadOutcome(triggers, {"left_trigger", "right_trigger"}, "TypeError")

\* the four values a mapping returns, and what each control calibrated to
\* on the way
MappingResult(thr, prop, mixture, inv) ==
    [calibrated |->
        [c \in CONTROLS |->
            CASE c = "throttle" -> thr.forward_calibrated
              [] c = "reverse" -> thr.reverse_calibrated
              [] c = "prop" -> prop
              [] c = "mixture" -> mixture],
     output |->
        [c \in CONTROLS |->
            CASE c = "throttle" -> thr.forward
              [] c = "reverse" -> thr.reverse
              [] c = "prop" -> apply_inversion(inv, prop, "prop")
              [] c = "mixture" -> apply_inversion(inv, mixture, "mixture")]]

\* return 0, 0, 0, 0, calibrated being what was calibrated before it
ZeroResult(calibrated) ==
    [calibrated |-> calibrated, output |-> [c \in CONTROLS |-> RInt(0)]]

\* max(0, min(32768, int(value * 327.68)))
VJoyAxisValue(p) == IMax(0, IMin(32768, AxisValue(p)))

Mut_MapControlsVJoySwapsProp(dev, out) ==
    [dev EXCEPT !.wAxisX = VJoyAxisValue(out["throttle"]),
                !.wAxisXRot = VJoyAxisValue(out["reverse"]),
                !.wAxisY = VJoyAxisValue(out["mixture"]),
                !.wAxisZ = VJoyAxisValue(out["prop"])]

\* FlightControls.map_controls_vjoy, the four axis assignments
VJoyAxes(dev, out) ==
    [dev EXCEPT !.wAxisX = VJoyAxisValue(out["throttle"]),
                !.wAxisXRot = VJoyAxisValue(out["reverse"]),
                !.wAxisY = VJoyAxisValue(out["prop"]),
                !.wAxisZ = VJoyAxisValue(out["mixture"])]

\* what apply_mapping leaves behind: the result it returns, the exception
\* that left it instead ("none" when it returned), the vJoy device and the
\* number of update() calls, the gamepad and the setters called on it
Outcome(result, dev, updates, m) ==
    [calibrated |-> result.calibrated, output |-> result.output,
     raised |-> m.raised, dev |-> dev, updates |-> updates,
     gamepad |-> m.gamepad, calls |-> m.calls]

\* FlightControls.map_controls_vjoy: nothing but zeros without a device,
\* where only prop and mixture were calibrated (by apply_mapping), or when
\* the calibration raises inside the try block
map_controls_vjoy(dev, gp, cal, inv, throttle_raw, prop_raw, mixture_raw) ==
    LET prop == calibrate_simple(cal, prop_raw, "prop")
        mixture == calibrate_simple(cal, mixture_raw, "mixture")
        thr == process_throttle_input(cal, inv, throttle_raw)
        result == MappingResult(thr, prop, mixture, inv)
        untouched == GamepadOutcome(gp, {}, "none")
    IN  IF ~dev.attached
        THEN Outcome(ZeroResult([c \in {"prop", "mixture"} |-> result.calibrated[c]]),
                     dev, 0, untouched)
        ELSE IF \E c \in CONTROLS : result.output[c] = ZeroDivisionError
        THEN Outcome(ZeroResult(result.calibrated), dev, 0, untouched)
        ELSE Outcome(result, VJoyAxes(dev, result.output), 1, untouched)

Mut_ApplyMappingByControllerOnly(controller, profile, dev, gp, cal, inv, throttle_raw, prop_raw, mixture_raw, y_only_accepted) ==
    LET prop == calibrate_simple(cal, prop_raw, "prop")
        mixture == calibrate_simple(cal, mixture_raw, "mixture")
        thr == process_throttle_input(cal, inv, throttle_raw)
        result == MappingResult(thr, prop, mixture, inv)
        out == result.output
        net == RSub(out["throttle"], out["reverse"])
        raises == GamepadOutcome(gp, {}, "ZeroDivisionError")
    IN  IF \E c \in {"prop", "mixture"} : out[c] = ZeroDivisionError
        THEN Outcome(result, dev, 0, raises)
        ELSE IF controller = "VJOY"
        THEN map_controls_vjoy(dev, gp, cal, inv,
                               throttle_raw, prop_raw, mixture_raw)
        ELSE LET m == CASE profile = "MSFS" ->
                             map_controls_msfs(gp, net, out["prop"], out["mixture"])
                        [] profile = "DCS" ->
                             map_controls_dcs(gp, net, out["prop"], out["mixture"])
                        [] profile = "XPLANE" ->
                             map_controls_xplane(gp, net, out["prop"], out["mixture"])
                        [] OTHER ->
                             map_controls_il2(gp, net, out["prop"], out["mixture"],
                                              y_only_accepted)
             IN  IF \E c \in {"throttle", "reverse"} : out[c] = ZeroDivisionError
                 THEN Outcome(result, dev, 0, raises)
                 ELSE Outcome(result, dev, 0, m)

\* FlightControls.apply_mapping.  A division by zero in a calibration leaves
\* the call before anything is written; the vJoy mapping serves the vJoy
\* controller and the War Thunder profile, a gamepad mapping function the rest
apply_mapping(controller, profile, dev, gp, cal, inv, throttle_raw, prop_raw, mixture_raw, y_only_accepted) ==
    LET prop == calibrate_simple(cal, prop_raw, "prop")
        mixture == calibrate_simple(cal, mixture_raw, "mixture")
        thr == process_throttle_input(cal, inv, throttle_raw)
        result == MappingResult(thr, prop, mixture, inv)
        out == result.output
        net == RSub(out["throttle"], out["reverse"])
        raises == GamepadOutcome(gp, {}, "ZeroDivisionError")
    IN  IF \E c \in {"prop", "mixture"} : out[c] = ZeroDivisionError
        THEN Outcome(result, dev, 0, raises)
        ELSE IF controller = "VJOY" \/ profile = "WAR_THUNDER"
        THEN map_controls_vjoy(dev, gp, cal, inv,
                               throttle_raw, prop_raw, mixture_raw)
        ELSE LET m == CASE profile = "MSFS" ->
                             map_controls_msfs(gp, net, out["prop"], out["mixture"])
                        [] profile = "DCS" ->
                             map_controls_dcs(gp, net, out["prop"], out["mixture"])
                        [] profile = "XPLANE" ->
                             map_controls_xplane(gp, net, out["prop"], out["mixture"])
                        [] profile = "IL2" ->
                             map_controls_il2(gp, net, out["prop"], out["mixture"],
                                              y_only_accepted)
             IN  IF \E c \in {"throttle", "reverse"} : out[c] = ZeroDivisionError
                 THEN Outcome(result, dev, 0, raises)
                 ELSE Outcome(result, dev, 0, m)

-----------------------------------------------------------------------------
(* Initial states                                                          *)

\* vg.VX360Gamepad() as FlightControls.__init__ creates it: nothing set yet
GamepadAfterInit ==
    [right_trigger |-> 0, left_trigger |-> 0,
     left_joystick |-> [x_value |-> 0, y_value |-> 0],
     right_joystick |-> [x_value |-> 0, y_value |-> 0]]

\* FlightControls.__init__: calibration and inversion defaults
DefaultCalibration ==
    [c \in CONTROLS |-> [min |-> 0, max |-> 100, idle |-> 0]]
DefaultInvertAxis == [c \in CONTROLS |-> FALSE]
\* FlightControlGUI.__init__: no raw sample seen yet
DefaultLastRawValues == [c \in CONTROLS |-> 0]
\* no throttle line has been mapped yet
NoResult ==
    [calibrated |-> [c \in CONTROLS |-> RInt(0)],
     output |-> [c \in CONTROLS |-> RInt(0)]]

\* state after FlightControls.__init__, dev being the outcome of opening the
\* vJoy device; pc is the panel configuration in force, as load_settings and
\* the setters of ControlPanelConfig left it
InitFlightControls(pc, dev) ==
    /\ pot_config = pc
    /\ button_states = EmptyDict
    /\ last_pot_values = EmptyDict
    /\ controls_active = TRUE
    /\ vjoy_dev = dev
    /\ release_timers = <<>>
    /\ last_control_panel_values = PadLine(<<>>)
    /\ processed_values = <<>>
    /\ writes = [i \in Pots |-> NoWrite]
    /\ vjoy_updates = (IF dev.attached THEN 1 ELSE 0)
    /\ op = "init"
    /\ trace = <<>>
    /\ used = {}
    /\ calibration = DefaultCalibration
    /\ invert_axis = DefaultInvertAxis
    /\ last_raw_values = DefaultLastRawValues
    /\ cal_result = NoResult
    /\ cal_steps = 0
    /\ controller_type = "XBOX"
    /\ current_profile = "MSFS"
    /\ gamepad = GamepadAfterInit
    /\ gamepad_calls = {}
    /\ control_panel_loops = 1
    /\ panel_call = {}
    /\ gui_controls_active = TRUE

\* the same when no settings file is on disk
InitWithDevice(pc, dev) ==
    /\ settings_file = {}
    /\ InitFlightControls(pc, dev)

\* the same with the vJoy device attached
InitWith(pc) == InitWithDevice(pc, VJoyAfterInit)

-----------------------------------------------------------------------------
(* SpecSamples: a session that only feeds panel lines, the configuration   *)
(* being the one restored at start-up                                      *)

\* channel 0 spans the raw domain 0..1023 and is an unmapped-button Axis on
\* X or a Switch, Button or Disabled channel on button 1; channel 1 keeps
\* the default range and is a Switch or Button on any button
SampleConfigs ==
    {[DefaultPotConfig EXCEPT ![0] = c0, ![1] = c1] :
        c0 \in {[DefaultPot EXCEPT !.type = tb[1], !.button_id = tb[2],
                                   !.vjoy_axis = "X", !.calibrated_max = RawHigh] :
                    tb \in {<<"Axis", None>>, <<"Switch", "1">>,
                            <<"Button", "1">>, <<"Disabled", "1">>}},
        c1 \in {[DefaultPot EXCEPT !.type = t, !.button_id = b] :
                    t \in {"Switch", "Button"}, b \in ButtonTexts}}

SampleLines == {<<a, b>> : a \in {0, 400, 600}, b \in {0, 600}}

InitSamples == \E pc \in SampleConfigs : InitWith(pc)

\* what one processed line showed on the sampled channels
TraceEntry(line, r) ==
    [raw |-> [i \in SamplePots |-> line[i + 1]],
     shown |-> [i \in SamplePots |-> r.processed_values[i + 1]],
     latch |-> [i \in SamplePots |-> LatchIn(r.button_states, i)]]

SampleLine ==
    /\ Len(trace) < MaxTrace
    /\ \E raw_values \in SampleLines :
          \E r \in {process_control_panel(PadLine(raw_values))} :
              /\ ControlPanelLine(PadLine(raw_values), r)
              /\ trace' = Append(trace, TraceEntry(PadLine(raw_values), r))

NextSamples == SampleLine

SpecSamples == InitSamples /\ [][NextSamples]_vars

-----------------------------------------------------------------------------
(* SpecPanel: panel lines interleaved with the GUI's channel setters       *)

\* FlightControlGUI.set_pot_type -> ControlPanelConfig.set_pot_type
SetPotType(index, type_name) ==
    /\ pot_config' =
          IF 0 <= index /\ index < NumPots /\ type_name \in CONTROL_TYPES
          THEN [pot_config EXCEPT ![index].type = type_name]
          ELSE pot_config
    /\ vjoy_updates' = 0
    /\ op' = "set_pot_type"
    /\ UNCHANGED <<button_states, last_pot_values, controls_active, vjoy_dev,
                   release_timers, last_control_panel_values, processed_values,
                   trace, used>>
    /\ writes' = [i \in Pots |-> NoWrite]
    /\ UNCHANGED throttleVars
    /\ UNCHANGED guiVars

\* FlightControlGUI.set_pot_button_id: text is the entry's content; a valid
\* id is pressed on the device and its release is scheduled
SetPotButtonId(index, text) ==
    LET button_id == IF text = "" THEN None ELSE text
        test == button_id # None /\ vjoy_dev.attached
    IN  /\ pot_config' = [pot_config EXCEPT ![index].button_id = button_id]
        /\ vjoy_dev' = IF test
                       THEN SetButtonBit(vjoy_dev, ButtonIdInt(button_id), 1)
                       ELSE vjoy_dev
        /\ release_timers' = IF test
                             THEN Append(release_timers, ButtonIdInt(button_id))
                             ELSE release_timers
        /\ vjoy_updates' = IF test THEN 1 ELSE 0
        /\ op' = "set_pot_button_id"
        /\ UNCHANGED <<button_states, last_pot_values, controls_active,
                       last_control_panel_values, processed_values,
                       trace, used>>
        /\ writes' = [i \in Pots |-> NoWrite]
        /\ UNCHANGED throttleVars
        /\ UNCHANGED guiVars

\* FlightControlGUI.release_button_bit, run by the oldest pending timer
ReleaseButtonBit ==
    /\ release_timers # <<>>
    /\ vjoy_dev' = SetButtonBit(vjoy_dev, Head(release_timers), 0)
    /\ release_timers' = Tail(release_timers)
    /\ vjoy_updates' = 1
    /\ op' = "release_button_bit"
    /\ UNCHANGED <<pot_config, button_states, last_pot_values, controls_active,
                   last_control_panel_values, processed_values,
                   trace, used>>
    /\ writes' = [i \in Pots |-> NoWrite]
    /\ UNCHANGED throttleVars
    /\ UNCHANGED guiVars

\* FlightControlGUI.reset_toggle_states
ResetToggleStates ==
    /\ button_states' = EmptyDict
    /\ last_pot_values' = EmptyDict
    /\ vjoy_updates' = 0
    /\ op' = "reset_toggle_states"
    /\ UNCHANGED <<pot_config, controls_active, vjoy_dev, release_timers,
                   last_control_panel_values, processed_values,
                   trace, used>>
    /\ writes' = [i \in Pots |-> NoWrite]
    /\ UNCHANGED throttleVars
    /\ UNCHANGED guiVars

\* a panel line whose only value is channel 0's
PanelLine ==
    \E raw0 \in {0, 600} :
        \E r \in {process_control_panel(PadLine(<<raw0>>))} :
            /\ ControlPanelLine(PadLine(<<raw0>>), r)
            /\ UNCHANGED trace

\* channel 0 restored as an Axis on X spanning the raw domain 0..1023
PanelConfigs ==
    {[DefaultPotConfig EXCEPT
        ![0] = [DefaultPot EXCEPT !.vjoy_axis = "X", !.calibrated_max = RawHigh]]}

InitPanel == \E pc \in PanelConfigs : InitWith(pc)

NextPanel ==
    \/ PanelLine
    \/ \E i \in DynamicPots, t \in CONTROL_TYPES : SetPotType(i, t)
    \/ \E i \in DynamicPots, text \in {""} \cup ButtonTexts :
          /\ Len(release_timers) < MaxTimers
          /\ SetPotButtonId(i, text)
    \/ ReleaseButtonBit
    \/ ResetToggleStates

SpecPanel == InitPanel /\ [][NextPanel]_vars

-----------------------------------------------------------------------------
(* SpecPot: panel lines on one channel under every restored configuration  *)
(* of type, inversion, threshold and calibration range                     *)

PotThresholds == 0 .. 100

\* full raw domain, default range, an inner range, a zero-width range and
\* an inverted range
PotRanges == {<<0, 1023>>, <<0, 100>>, <<100, 900>>, <<512, 512>>, <<900, 100>>}

PotRaws == {-5, 0, 1, 100, 101, 511, 512, 900, 1023, 2000}

PotConfigs ==
    {[DefaultPotConfig EXCEPT ![0] = c0] :
        c0 \in {[DefaultPot EXCEPT !.type = t, !.invert = inv, !.threshold = th,
                                   !.calibrated_min = rg[1], !.calibrated_max = rg[2],
                                   !.vjoy_axis = "X", !.button_id = "1"] :
                    t \in {"Switch", "Button"}, inv \in BOOLEAN,
                    th \in PotThresholds, rg \in PotRanges}
               \cup
               {[DefaultPot EXCEPT !.type = t, !.invert = inv,
                                   !.calibrated_min = rg[1], !.calibrated_max = rg[2],
                                   !.vjoy_axis = "X", !.button_id = "1"] :
                    t \in {"Axis", "Disabled"}, inv \in BOOLEAN, rg \in PotRanges}}

InitPot == \E pc \in PotConfigs : InitWith(pc)

PotLine ==
    \E raw0 \in PotRaws :
        \E r \in {process_control_panel(PadLine(<<raw0>>))} :
            /\ ControlPanelLine(PadLine(<<raw0>>), r)
            /\ UNCHANGED trace

NextPot == PotLine

SpecPot == InitPot /\ [][NextPot]_vars

-----------------------------------------------------------------------------
(* SpecThrottle: throttle lines interleaved with the calibration and       *)
(* inversion commands of the GUI                                           *)

\* what a handler that does not touch the panel leaves behind
OutsidePanel(name) ==
    /\ op' = name
    /\ vjoy_updates' = 0
    /\ writes' = [i \in Pots |-> NoWrite]
    /\ UNCHANGED <<pot_config, button_states, last_pot_values, controls_active,
                   vjoy_dev, release_timers, last_control_panel_values,
                   processed_values, trace, used>>
    /\ UNCHANGED guiVars

\* a calibration or inversion command of the GUI
CalibrationCommand(name) ==
    /\ cal_steps < MaxCalSteps
    /\ cal_steps' = cal_steps + 1
    /\ OutsidePanel(name)
    /\ UNCHANGED <<last_raw_values, cal_result, mappingVars>>

\* read_serial_data on one throttle line while controls are active: store
\* the raw values, then apply_mapping.  A TypeError leaves the handler before
\* the four values are queued for display
ThrottleLine(t_pct, p_pct, m_pct) ==
    \E y_only_accepted \in BOOLEAN :
    \E r \in {apply_mapping(controller_type, current_profile, vjoy_dev, gamepad,
                            calibration, invert_axis, t_pct, p_pct, m_pct,
                            y_only_accepted)} :
        /\ last_raw_values' = [c \in CONTROLS |->
                                 CASE c \in {"throttle", "reverse"} -> t_pct
                                   [] c = "prop" -> p_pct
                                   [] c = "mixture" -> m_pct]
        /\ cal_result' = IF r.raised = "TypeError" THEN cal_result
                         ELSE [calibrated |-> r.calibrated, output |-> r.output]
        /\ op' = IF r.raised = "TypeError" THEN "throttle_line_raised"
                 ELSE "throttle_line"
        /\ vjoy_dev' = r.dev
        /\ vjoy_updates' = r.updates
        /\ gamepad' = r.gamepad
        /\ gamepad_calls' = r.calls
        /\ writes' = [i \in Pots |-> NoWrite]
        /\ UNCHANGED <<pot_config, button_states, last_pot_values,
                       controls_active, release_timers,
                       last_control_panel_values, processed_values, trace, used,
                       calibration, invert_axis, cal_steps, controller_type,
                       current_profile>>
        /\ UNCHANGED guiVars

Mut_ProfileIndexNoWrap(profile) ==
    IF profile = ControlProfile[Len(ControlProfile)] THEN Len(ControlProfile) - 1
    ELSE CHOOSE k \in 1..Len(ControlProfile) : ControlProfile[k] = profile

\* the position of a profile in the enumeration
ProfileIndex(profile) ==
    CHOOSE k \in 1..Len(ControlProfile) : ControlProfile[k] = profile

\* FlightControlGUI.next_profile, which calls FlightControls.next_profile:
\* the next profile of the enumeration, the first one after the last
ProfileChange ==
    /\ current_profile' =
           ControlProfile[(ProfileIndex(current_profile) % Len(ControlProfile)) + 1]
    /\ OutsidePanel("next_profile")
    /\ UNCHANGED <<calibration, invert_axis, last_raw_values, cal_result,
                   controller_type, gamepad, gamepad_calls>>

next_profile == ProfileChange /\ UNCHANGED cal_steps

\* FlightControlGUI.set_controller_type with the radio button on selected
ControllerChange(selected) ==
    /\ controller_type' = selected
    /\ OutsidePanel("set_controller_type")
    /\ UNCHANGED <<calibration, invert_axis, last_raw_values, cal_result,
                   current_profile, gamepad, gamepad_calls>>

set_controller_type(selected) == ControllerChange(selected) /\ UNCHANGED cal_steps

\* the same two commands counted among the commands of the GUI
CountedCommand(Change) ==
    /\ cal_steps < MaxCalSteps
    /\ cal_steps' = cal_steps + 1
    /\ Change

\* FlightControlGUI.set_idle_point
set_idle_point(control_type) ==
    /\ calibration' = [calibration EXCEPT
                          ![control_type].idle = last_raw_values[control_type]]
    /\ CalibrationCommand("set_idle_point")
    /\ UNCHANGED invert_axis

\* FlightControlGUI.set_max_forward
set_max_forward ==
    /\ calibration' = [calibration EXCEPT
                          !["throttle"].max = last_raw_values["throttle"]]
    /\ CalibrationCommand("set_max_forward")
    /\ UNCHANGED invert_axis

\* FlightControlGUI.set_max_reverse
set_max_reverse ==
    /\ calibration' = [calibration EXCEPT
                          !["reverse"].min = last_raw_values["throttle"]]
    /\ CalibrationCommand("set_max_reverse")
    /\ UNCHANGED invert_axis

\* FlightControlGUI.set_max_position
set_max_position(control_type) ==
    /\ calibration' = [calibration EXCEPT
                          ![control_type].max = last_raw_values[control_type]]
    /\ CalibrationCommand("set_max_position")
    /\ UNCHANGED invert_axis

\* FlightControlGUI.reset_calibration
reset_calibration ==
    /\ calibration' =
          [c \in CONTROLS |->
              [min |-> 0, max |-> 100,
               idle |-> IF c = "reverse" THEN last_raw_values["throttle"]
                        ELSE last_raw_values[c]]]
    /\ CalibrationCommand("reset_calibration")
    /\ UNCHANGED invert_axis

\* FlightControlGUI.toggle_inversion, the check box having just flipped
toggle_inversion(axis) ==
    /\ invert_axis' = [invert_axis EXCEPT ![axis] = ~@]
    /\ CalibrationCommand("toggle_inversion")
    /\ UNCHANGED calibration

\* raw readings of the throttle lever, and of the prop and mixture levers
\* which the lines fed here move together
ThrottleRaws == {-50, 0, 200, 1000}
SimpleRaws == {0, 600}

InitThrottle == InitWith(DefaultPotConfig)

NextThrottle ==
    \/ \E t \in ThrottleRaws : \E s \in SimpleRaws : ThrottleLine(t, s, s)
    \/ \E c \in CONTROLS : set_idle_point(c)
    \/ set_max_forward
    \/ set_max_reverse
    \/ \E c \in {"prop", "mixture"} : set_max_position(c)
    \/ reset_calibration
    \/ \E c \in CONTROLS : toggle_inversion(c)

SpecThrottle == InitThrottle /\ [][NextThrottle]_vars

-----------------------------------------------------------------------------
(* SpecPercent: every source of a calibrated percentage at once, throttle  *)
(* lines and calibration commands next to panel lines                      *)

\* readings at and beyond both ends of the calibrated ranges: throttle
\* lines (throttle, prop, mixture) and raw values of panel channel 0
PercentLines == {<<-50, 0, 0>>, <<1000, 600, 600>>}
PercentPotRaws == {-5, 2000}

\* channel 0 as an axis without a target, on the default range or on an
\* inverted one whose bounds are the wrong way round
PercentConfigs ==
    {DefaultPotConfig,
     [DefaultPotConfig EXCEPT ![0] =
         [DefaultPot EXCEPT !.invert = TRUE,
                            !.calibrated_min = 900, !.calibrated_max = 100]]}

\* the device attached under either configuration, or absent
InitPercent ==
    \/ \E pc \in PercentConfigs : InitWithDevice(pc, VJoyAfterInit)
    \/ InitWithDevice(DefaultPotConfig, VJoyNone)

PercentPanelLine ==
    \E raw0 \in PercentPotRaws :
        \E r \in {process_control_panel(PadLine(<<raw0>>))} :
            /\ ControlPanelLine(PadLine(<<raw0>>), r)
            /\ UNCHANGED trace

NextPercent ==
    \/ \E l \in PercentLines : ThrottleLine(l[1], l[2], l[3])
    \/ \E c \in CONTROLS : set_idle_point(c)
    \/ set_max_forward
    \/ set_max_reverse
    \/ \E c \in {"prop", "mixture"} : set_max_position(c)
    \/ reset_calibration
    \/ \E c \in CONTROLS : toggle_inversion(c)
    \/ PercentPanelLine

SpecPercent == InitPercent /\ [][NextPercent]_vars

-----------------------------------------------------------------------------
(* SpecMapping: throttle lines under every profile and controller type,    *)
(* with the vJoy device attached or absent, on the default calibration     *)

\* throttle lines (throttle, prop, mixture): forward at 80 percent with
\* prop at 50 and mixture at 100 percent, and in reverse with prop at 100
\* and mixture at 0 percent
MappingLines == {<<80, 50, 100>>, <<-50, 100, 0>>}

InitMapping ==
    \E dev \in {VJoyAfterInit, VJoyNone} : InitWithDevice(DefaultPotConfig, dev)

NextMapping ==
    \/ \E l \in MappingLines : ThrottleLine(l[1], l[2], l[3])
    \/ next_profile
    \/ \E selected \in ControllerType : set_controller_type(selected)

SpecMapping == InitMapping /\ [][NextMapping]_vars

-----------------------------------------------------------------------------
(* SpecNoSink: throttle lines and panel lines while the vJoy device could  *)
(* not be opened, under every profile and controller type                  *)

InitNoSink == InitWithDevice(DefaultPotConfig, VJoyNone)

NextNoSink ==
    \/ \E l \in MappingLines : ThrottleLine(l[1], l[2], l[3])
    \/ next_profile
    \/ \E selected \in ControllerType : set_controller_type(selected)
    \/ PercentPanelLine

SpecNoSink == InitNoSink /\ [][NextNoSink]_vars

-----------------------------------------------------------------------------
(* SpecConfig: throttle lines and panel lines between the commands that    *)
(* change the configuration: channel type, profile, controller type,       *)
(* calibration and inversion, up to MaxCalSteps of the last four           *)

\* one throttle line (throttle, prop, mixture)
ConfigLines == {<<80, 50, 100>>}

InitConfig == InitWith(DefaultPotConfig)

NextConfig ==
    \/ \E l \in ConfigLines : ThrottleLine(l[1], l[2], l[3])
    \/ PanelLine
    \/ \E t \in {"Axis", "Switch"} : SetPotType(0, t)
    \/ CountedCommand(ProfileChange)
    \/ \E selected \in ControllerType : CountedCommand(ControllerChange(selected))
    \/ set_idle_point("throttle")
    \/ toggle_inversion("prop")

SpecConfig == InitConfig /\ [][NextConfig]_vars

-----------------------------------------------------------------------------
(* SpecShared: the throttle reader and the panel reader, each a thread of  *)
(* its own, feeding the one vJoy device; a step is one processed line      *)

\* channel 0 restored as an Axis on X or on RY, spanning the raw domain
SharedConfigs ==
    {[DefaultPotConfig EXCEPT
        ![0] = [DefaultPot EXCEPT !.vjoy_axis = axis, !.calibrated_max = RawHigh]] :
     axis \in {"X", "RY"}}

InitShared == \E pc \in SharedConfigs : InitWith(pc)

NextShared ==
    \/ \E l \in MappingLines : ThrottleLine(l[1], l[2], l[3])
    \/ PanelLine
    \/ \E selected \in ControllerType : set_controller_type(selected)

SpecShared == InitShared /\ [][NextShared]_vars

-----------------------------------------------------------------------------
(* SpecThreads: the panel reader thread next to the GUI thread.  A panel   *)
(* line takes two steps, one up to the read of the button word and one     *)
(* from its write on, and the commands of the GUI run whenever they are    *)
(* given; nothing in the program makes one thread wait for the other       *)

\* channel 0 restored as a Button on button 1
ThreadConfigs ==
    {[DefaultPotConfig EXCEPT
        ![0] = [DefaultPot EXCEPT !.type = "Button", !.button_id = "1",
                                  !.calibrated_max = RawHigh]]}

InitThreads == \E pc \in ThreadConfigs : InitWith(pc)

\* control_panel_loop up to current_buttons = self.vjoy_dev.data.lButtons of
\* channel 0: the line is stored, the dictionaries are updated and the
\* button word is read
ReadPanelLine ==
    \E raw0 \in {0, 600} :
        \E r \in {process_control_panel(PadLine(<<raw0>>))} :
            /\ control_panel_loops > 0
            /\ panel_call = {}
            /\ vjoy_dev.attached
            /\ panel_call' = {r}
            /\ last_control_panel_values' = PadLine(<<raw0>>)
            /\ button_states' = r.button_states
            /\ last_pot_values' = r.last_pot_values
            /\ op' = "read_line"
            /\ vjoy_updates' = 0
            /\ writes' = [i \in Pots |-> NoWrite]
            /\ UNCHANGED <<pot_config, controls_active, vjoy_dev, release_timers,
                           processed_values, trace, used>>
            /\ UNCHANGED throttleVars
            /\ UNCHANGED <<control_panel_loops, gui_controls_active, settings_file>>

\* the rest of the call: the button word computed from the value read is
\* written, the device updated and the processed values returned
WritePanelLine ==
    \E r \in panel_call :
        /\ panel_call' = {}
        /\ vjoy_dev' = [vjoy_dev EXCEPT !.lButtons = r.dev.lButtons]
        /\ processed_values' = r.processed_values
        /\ writes' = r.writes
        /\ vjoy_updates' = r.updates
        /\ op' = "line"
        /\ used' = used \cup Toggled
        /\ UNCHANGED <<pot_config, button_states, last_pot_values,
                       controls_active, release_timers,
                       last_control_panel_values, trace>>
        /\ UNCHANGED throttleVars
        /\ UNCHANGED <<control_panel_loops, gui_controls_active, settings_file>>

\* the loops left after the GUI thread has started one more: of the loops
\* that were running, those asked to stop end unless they stay blocked in a
\* read for longer than the GUI waits, and the new loop runs if it can open
\* its port
RestartedLoops(asked_to_stop) ==
    {survivors + started :
        survivors \in (IF asked_to_stop THEN 0..control_panel_loops
                       ELSE {control_panel_loops}),
        started \in {0, 1}}

\* what restarting a reader leaves of the rest of the state
RestartCommand(name, asked_to_stop, values) ==
    \E loops \in RestartedLoops(asked_to_stop) :
        /\ panel_call = {}
        /\ loops <= MaxLoops
        /\ control_panel_loops' = loops
        /\ last_control_panel_values' = values
        /\ op' = name
        /\ vjoy_updates' = 0
        /\ writes' = [i \in Pots |-> NoWrite]
        /\ UNCHANGED <<pot_config, button_states, last_pot_values,
                       controls_active, vjoy_dev, release_timers,
                       processed_values, trace, used>>
        /\ UNCHANGED throttleVars
        /\ UNCHANGED <<panel_call, gui_controls_active, settings_file>>

\* FlightControlGUI.reconnect_control_panel: control_panel_running is set to
\* False, and after half a second to True, then a new loop is started
reconnect_control_panel ==
    RestartCommand("reconnect_control_panel", TRUE, last_control_panel_values)

\* FlightControlGUI.reset_control_panel_connection: the same, with the
\* stored line cleared
reset_control_panel_connection ==
    RestartCommand("reset_control_panel_connection", TRUE, PadLine(<<>>))

\* FlightControlGUI.reconnect_serial: start_serial_thread starts a panel
\* loop as well, without stopping the one that runs
reconnect_serial ==
    RestartCommand("reconnect_serial", FALSE, last_control_panel_values)

NextThreads ==
    \/ ReadPanelLine
    \/ WritePanelLine
    \/ ResetToggleStates
    \/ \E text \in ButtonTexts :
          /\ Len(release_timers) < MaxTimers
          /\ SetPotButtonId(0, text)
    \/ ReleaseButtonBit
    \/ reconnect_control_panel
    \/ reset_control_panel_connection
    \/ reconnect_serial

SpecThreads == InitThreads /\ [][NextThreads]_vars

-----------------------------------------------------------------------------
(* SpecSettings: configuration commands, save_settings and the next start  *)
(* of the program, which calls load_settings on a fresh instance           *)

\* the entry save_settings builds for one channel, as a set: empty when a
\* key it reads is not in the channel's dictionary (KeyError)
PotSettings(config) ==
    IF {"type", "threshold", "inversion", "vjoy_axis", "button_id"} \subseteq DOMAIN config
    THEN {[type |-> config.type, threshold |-> config.threshold,
           inversion |-> config.inversion, vjoy_axis |-> config.vjoy_axis,
           button_id |-> config.button_id]}
    ELSE {}

\* the dictionary save_settings builds before it opens the file
Settings(profile, controller, inv, cal, pots) ==
    [profile |-> profile,
     controller_type |-> controller,
     throttle_inversion |-> inv["throttle"],
     prop_inversion |-> inv["prop"],
     mixture_inversion |-> inv["mixture"],
     throttle_calibration |-> cal["throttle"],
     prop_calibration |-> [min |-> cal["prop"].min, max |-> cal["prop"].max],
     mixture_calibration |-> [min |-> cal["mixture"].min, max |-> cal["mixture"].max],
     reverse_calibration |-> [min |-> cal["reverse"].min, max |-> cal["reverse"].max],
     pot_config |-> pots]

\* the file after save_settings: an exception raised while the dictionary
\* is built is caught at the end of the function, before the file is opened
SavedFile ==
    IF \E i \in Pots : PotSettings(pot_config[i]) = {}
    THEN settings_file
    ELSE {Settings(current_profile, controller_type, invert_axis, calibration,
                   [i \in Pots |-> CHOOSE e \in PotSettings(pot_config[i]) : TRUE])}

\* a settings file of that format found at the first start
InstalledSettings ==
    Settings("DCS", "VJOY", [DefaultInvertAxis EXCEPT !["prop"] = TRUE],
             [DefaultCalibration EXCEPT !["throttle"].idle = 20],
             [i \in Pots |-> [type |-> "Switch", threshold |-> 50,
                              inversion |-> FALSE, vjoy_axis |-> None,
                              button_id |-> None]])

\* the configuration of a fresh instance after load_settings: without a
\* file nothing is set; with one the profile goes to the attribute profile,
\* which nothing reads, the controller type is set, and the next statement,
\* self.controller_type_var.set, raises AttributeError, which ends the load
LoadedSettings(file) ==
    [current_profile |-> "MSFS",
     controller_type |->
        IF file = {} THEN "XBOX"
        ELSE LET name == (CHOOSE f \in file : TRUE).controller_type
             IN  IF name \in ControllerType THEN name ELSE "XBOX",
     invert_axis |-> DefaultInvertAxis,
     calibration |-> DefaultCalibration,
     pot_config |-> DefaultPotConfig]

\* FlightControlGUI.save_settings
save_settings ==
    /\ settings_file' = SavedFile
    /\ op' = "save_settings"
    /\ vjoy_updates' = 0
    /\ writes' = [i \in Pots |-> NoWrite]
    /\ UNCHANGED <<pot_config, button_states, last_pot_values, controls_active,
                   vjoy_dev, release_timers, last_control_panel_values,
                   processed_values, trace, used>>
    /\ UNCHANGED throttleVars
    /\ UNCHANGED <<control_panel_loops, panel_call, gui_controls_active>>

\* the next start of the program: FlightControlGUI.__init__ builds a fresh
\* FlightControls and calls load_settings
load_settings ==
    \E loaded \in {LoadedSettings(settings_file)} :
        /\ pot_config' = loaded.pot_config
        /\ calibration' = loaded.calibration
        /\ invert_axis' = loaded.invert_axis
        /\ current_profile' = loaded.current_profile
        /\ controller_type' = loaded.controller_type
        /\ op' = "load_settings"
        /\ button_states' = EmptyDict
        /\ last_pot_values' = EmptyDict
        /\ controls_active' = TRUE
        /\ vjoy_dev' = VJoyAfterInit
        /\ release_timers' = <<>>
        /\ last_control_panel_values' = PadLine(<<>>)
        /\ processed_values' = <<>>
        /\ writes' = [i \in Pots |-> NoWrite]
        /\ vjoy_updates' = 1
        /\ trace' = <<>>
        /\ used' = {}
        /\ last_raw_values' = DefaultLastRawValues
        /\ cal_result' = NoResult
        /\ cal_steps' = 0
        /\ gamepad' = GamepadAfterInit
        /\ gamepad_calls' = {}
        /\ control_panel_loops' = 1
        /\ panel_call' = {}
        /\ gui_controls_active' = TRUE
        /\ UNCHANGED settings_file

InitSettings ==
    /\ settings_file \in {{}, {InstalledSettings}}
    /\ InitFlightControls(DefaultPotConfig, VJoyAfterInit)

NextSettings ==
    \/ \E t \in {"Axis", "Switch"} : SetPotType(0, t)
    \/ CountedCommand(ProfileChange)
    \/ \E selected \in ControllerType : CountedCommand(ControllerChange(selected))
    \/ set_idle_point("throttle")
    \/ toggle_inversion("prop")
    \/ save_settings
    \/ load_settings

SpecSettings == InitSettings /\ [][NextSettings]_vars

-----------------------------------------------------------------------------
(* SpecPause: throttle lines and panel lines while the user pauses and     *)
(* resumes the controls                                                    *)

\* FlightControlGUI.toggle_controls: the flag of the GUI is flipped, and on
\* pausing the gamepad is reset to neutral
toggle_controls ==
    /\ gui_controls_active' = ~gui_controls_active
    /\ gamepad' = IF gui_controls_active THEN GamepadAfterInit ELSE gamepad
    /\ gamepad_calls' = IF gui_controls_active THEN {} ELSE gamepad_calls
    /\ op' = "toggle_controls"
    /\ vjoy_updates' = 0
    /\ writes' = [i \in Pots |-> NoWrite]
    /\ UNCHANGED <<pot_config, button_states, last_pot_values, controls_active,
                   vjoy_dev, release_timers, last_control_panel_values,
                   processed_values, trace, used>>
    /\ UNCHANGED <<calibration, invert_axis, last_raw_values, cal_result,
                   cal_steps, controller_type, current_profile>>
    /\ UNCHANGED <<control_panel_loops, panel_call, settings_file>>

\* read_serial_data while the flag of the GUI is off: the raw values are
\* stored for calibration and queued for display, nothing is mapped
PausedThrottleLine(t_pct, p_pct, m_pct) ==
    /\ ~gui_controls_active
    /\ last_raw_values' = [c \in CONTROLS |->
                             CASE c \in {"throttle", "reverse"} -> t_pct
                               [] c = "prop" -> p_pct
                               [] c = "mixture" -> m_pct]
    /\ OutsidePanel("throttle_line_paused")
    /\ UNCHANGED <<calibration, invert_axis, cal_result, cal_steps, mappingVars>>

\* read_serial_data: a line is mapped only if the flag of the GUI is on
SerialLine(t_pct, p_pct, m_pct) ==
    \/ gui_controls_active /\ ThrottleLine(t_pct, p_pct, m_pct)
    \/ PausedThrottleLine(t_pct, p_pct, m_pct)

\* channel 0 restored as a Switch on button 1, or as an Axis on RY, spanning
\* the raw domain 0..1023
PauseConfigs ==
    {[DefaultPotConfig EXCEPT
        ![0] = [DefaultPot EXCEPT !.type = ta[1], !.button_id = "1",
                                  !.vjoy_axis = ta[2], !.calibrated_max = RawHigh]] :
        ta \in {<<"Switch", None>>, <<"Axis", "RY">>}}

InitPause == \E pc \in PauseConfigs : InitWith(pc)

NextPause ==
    \/ toggle_controls
    \/ PanelLine
    \/ \E l \in MappingLines : SerialLine(l[1], l[2], l[3])
    \/ \E selected \in ControllerType : set_controller_type(selected)

SpecPause == InitPause /\ [][NextPause]_vars

-----------------------------------------------------------------------------
(* Properties of the panel                                                 *)

\* the calibrated, post-inversion value of raw on channel i exceeds the
\* channel's threshold
AboveSample(i, raw) ==
    ExceedsThreshold(CalibratedPot(pot_config[i], raw), pot_config[i].threshold)

IsToggleChannel(i, type_name) ==
    pot_config[i].type = type_name /\ pot_config[i].button_id # None

\* channel j writes button number id when it is processed
TargetsButton(j, id) ==
    /\ pot_config[j].type \in {"Switch", "Button"}
    /\ pot_config[j].button_id # None
    /\ ButtonIdInt(pot_config[j].button_id) = id

\* the entries of dictionary d that belong to channel i
EntriesOf(d, i) == [k \in {x \in DOMAIN d : x[1] = i} |-> d[k]]

\* C1: for a Switch channel with a button id, a processed line changes the
\* latched button state only if the sample is above the threshold while the
\* threshold state stored for the key was below; on above-to-below
\* transitions and on steady samples the latch is unchanged.
C1_SwitchFlipsOnlyOnRisingEdge ==
    [][op' = "line" =>
        \A i \in Pots :
            IsToggleChannel(i, "Switch") =>
                (LatchIn(button_states', i) # LatchIn(button_states, i)
                    => /\ AboveSample(i, last_control_panel_values'[i + 1])
                       /\ ~StoredThresholdState(i))]_vars

\* a latch that was on stayed on over a sample below the threshold and went
\* off on the next sample above it
C1_Witness ==
    \E i \in SamplePots :
        /\ IsToggleChannel(i, "Switch")
        /\ Len(trace) >= 3
        /\ LET n == Len(trace)
           IN  /\ trace[n - 2].latch[i] = 1
               /\ ~AboveSample(i, trace[n - 1].raw[i])
               /\ trace[n - 1].latch[i] = 1
               /\ trace[n].latch[i] = 0

\* samples of the trace at which channel i crossed its threshold upward, the
\* fresh toggle state counting as below before the first sample
UpwardCrossings(i) ==
    {k \in 1 .. Len(trace) :
        /\ AboveSample(i, trace[k].raw[i])
        /\ (k = 1 \/ ~AboveSample(i, trace[k - 1].raw[i]))}

\* samples of the trace at which the latch of channel i flipped
FlipSamples(i) ==
    {k \in 1 .. Len(trace) :
        trace[k].latch[i] # (IF k = 1 THEN 0 ELSE trace[k - 1].latch[i])}

\* the raw values and the displayed values of channel i along the trace
RawTrace(i) == [k \in 1 .. Len(trace) |-> trace[k].raw[i]]
ShownTrace(i) == [k \in 1 .. Len(trace) |-> trace[k].shown[i]]

\* the scenario's channel: threshold 50, range 0..1023, not inverted
IsScenarioChannel(i) ==
    /\ IsToggleChannel(i, "Switch")
    /\ pot_config[i].threshold = 50
    /\ pot_config[i].calibrated_min = 0
    /\ pot_config[i].calibrated_max = 1023
    /\ ~pot_config[i].invert

\* C2: for a Switch channel starting from a fresh toggle state (sink
\* attached, controls active), the latch flips exactly at the samples that
\* cross the threshold upward, so N upward crossings give N flips; for
\* threshold 50, range 0..1023 and raw trace [0, 600, 0, 600] the displayed
\* values are [0, 100, 0, 100] and the latch flips at samples 2 and 4 only.
C2_FlipsEqualUpwardCrossings ==
    \A i \in SamplePots :
        IsToggleChannel(i, "Switch") =>
            /\ FlipSamples(i) = UpwardCrossings(i)
            /\ Cardinality(FlipSamples(i)) = Cardinality(UpwardCrossings(i))
            /\ (IsScenarioChannel(i) /\ RawTrace(i) = <<0, 600, 0, 600>>)
                  => /\ ShownTrace(i) = <<RInt(0), RInt(100), RInt(0), RInt(100)>>
                     /\ FlipSamples(i) = {2, 4}

C2_Witness ==
    \E i \in SamplePots :
        /\ IsScenarioChannel(i)
        /\ RawTrace(i) = <<0, 600, 0, 600>>
        /\ Cardinality(FlipSamples(i)) = 2

\* C3: for a Button channel with a button id, the button state written to
\* the device by a processed line is the above-threshold state of that
\* line's sample, whatever the earlier samples were; the device bit holds
\* it unless a later channel of the line writes the same button.
C3_ButtonOutputIsLevel ==
    \A i \in Pots :
        (op = "line" /\ IsToggleChannel(i, "Button")) =>
            LET id == ButtonIdInt(pot_config[i].button_id)
                above == AboveSample(i, last_control_panel_values[i + 1])
            IN  /\ writes[i] = ButtonWrite(id, IF above THEN 1 ELSE 0)
                /\ (\A j \in Pots : j > i => ~TargetsButton(j, id))
                      => (id \in vjoy_dev.lButtons <=> above)

\* a Button channel released after it was pressed
C3_Witness ==
    \E i \in SamplePots :
        /\ op = "line"
        /\ IsToggleChannel(i, "Button")
        /\ \A j \in Pots : j > i => ~TargetsButton(j, ButtonIdInt(pot_config[i].button_id))
        /\ Len(trace) >= 2
        /\ trace[Len(trace) - 1].latch[i] = 1
        /\ writes[i].value = 0

\* C4: a Switch channel whose (channel, button id) pair has never been
\* toggled has a fresh history, previous threshold state below and latch
\* off, whatever is latched under the ids the channel used before.
C4_FreshHistoryPerButtonId ==
    \A i \in Pots :
        (/\ IsToggleChannel(i, "Switch")
         /\ <<i, ButtonIdInt(pot_config[i].button_id)>> \notin used)
            => /\ StoredThresholdState(i) = FALSE
               /\ LatchIn(button_states, i) = 0

\* channel 0 latched on under button 1 has just been reassigned to button 2
C4_Witness ==
    /\ op = "set_pot_button_id"
    /\ pot_config[0].type = "Switch"
    /\ pot_config[0].button_id = "2"
    /\ <<0, 1>> \in used
    /\ <<0, 2>> \notin used
    /\ \E k \in DOMAIN button_states : button_states[k] = 1

\* C6: a processed line gives a Disabled channel the value 0, issues no
\* axis or button command for it, leaves the channel's entries of
\* button_states and last_pot_values as they were, and leaves the device
\* data untouched when no other channel writes.
C6_DisabledChannelIsInert ==
    [][op' = "line" =>
        \A i \in Pots :
            pot_config[i].type = "Disabled" =>
                /\ processed_values'[i + 1] = RInt(0)
                /\ writes'[i] = NoWrite
                /\ EntriesOf(button_states', i) = EntriesOf(button_states, i)
                /\ EntriesOf(last_pot_values', i) = EntriesOf(last_pot_values, i)
                /\ (\A j \in Pots : writes'[j] = NoWrite) => vjoy_dev' = vjoy_dev]_vars

\* a channel disabled while latched on, with an axis and a button
\* configured, has processed a sample above its threshold
C6_Witness ==
    /\ op = "line"
    /\ pot_config[0].type = "Disabled"
    /\ pot_config[0].vjoy_axis # None
    /\ pot_config[0].button_id # None
    /\ LatchIn(button_states, 0) = 1
    /\ last_control_panel_values[1] = 600
    /\ processed_values[1] = RInt(0)

\* C5: for a Switch or Button channel the value process_pot_value returns
\* is 100 when the calibrated, post-inversion value exceeds the threshold
\* and 0 otherwise, and the threshold state process_control_panel derives
\* from it and stores for the toggle logic is "calibrated value >
\* threshold", for every threshold in 0..100.
C5_BinaryPercentAndThresholdState ==
    \A i \in Pots :
        (op = "line" /\ pot_config[i].type \in {"Switch", "Button"}) =>
            LET above == AboveSample(i, last_control_panel_values[i + 1])
            IN  /\ processed_values[i + 1] = (IF above THEN RInt(100) ELSE RInt(0))
                /\ pot_config[i].button_id # None
                      => StoredThresholdState(i) = above

\* an inverted Switch or Button channel at threshold 100 whose sample
\* calibrates to exactly 100 and so stays below, and one at threshold 0
\* whose sample calibrates above it
C5_Witness ==
    /\ op = "line"
    /\ pot_config[0].type \in {"Switch", "Button"}
    /\ pot_config[0].invert
    /\ \/ /\ pot_config[0].threshold = 100
          /\ CalibratedPot(pot_config[0], last_control_panel_values[1]) = RInt(100)
          /\ processed_values[1] = RInt(0)
          /\ ~StoredThresholdState(0)
          /\ pot_config[0].calibrated_min = 100

-----------------------------------------------------------------------------
(* Properties of the throttle quadrant                                     *)

\* the last handler was a throttle line: cal_result is what apply_mapping
\* made of last_raw_values under the present calibration and inversion
Mapped == op = "throttle_line"

\* x is a number between 0 and 100
InPercentRange(x) == x.d > 0 /\ RLe(RInt(0), x) /\ RLe(x, RInt(100))

\* the raw value of control c on the last throttle line
Raw(c) == last_raw_values[c]

\* C7 as stated: whatever the inversion flags, a raw value at or below the
\* throttle idle point reads forward 0 and a raw value at or above the reverse
\* idle point reads reverse 0
C7_IdleSplitsWhateverInversion ==
    Mapped =>
        /\ (Raw("throttle") <= calibration["throttle"].idle
               => cal_result.output["throttle"] = RInt(0))
        /\ (Raw("reverse") >= calibration["reverse"].idle
               => cal_result.output["reverse"] = RInt(0))

\* C7 amended: with inversion off for throttle, a raw value at or below the
\* throttle idle point reads forward 0; with inversion off for reverse, a raw
\* value at or above the reverse idle point reads reverse 0
C7_IdleSplitsWithoutInversion ==
    Mapped =>
        /\ (~invert_axis["throttle"]
               /\ Raw("throttle") <= calibration["throttle"].idle
               => cal_result.output["throttle"] = RInt(0))
        /\ (~invert_axis["reverse"]
               /\ Raw("reverse") >= calibration["reverse"].idle
               => cal_result.output["reverse"] = RInt(0))

\* a line read exactly at an idle point of 200 shared by both directions,
\* inversion off: both readings are 0
C7_Witness ==
    /\ Mapped
    /\ ~invert_axis["throttle"] /\ ~invert_axis["reverse"]
    /\ calibration["throttle"].idle = 200 /\ calibration["reverse"].idle = 200
    /\ Raw("throttle") = 200
    /\ cal_result.output["throttle"] = RInt(0)
    /\ cal_result.output["reverse"] = RInt(0)

\* C8: every calibrated percentage lies in [0, 100], whatever the raw
\* reading and the calibration bounds: the four values apply_mapping
\* calibrates and the four it returns, and the value process_pot_value
\* computes for every panel channel of a line process_control_panel processes
C8_CalibratedWithinPercentRange ==
    /\ Mapped =>
          \A c \in CONTROLS :
              /\ InPercentRange(cal_result.calibrated[c])
              /\ InPercentRange(cal_result.output[c])
    /\ op = "line" /\ vjoy_dev.attached =>
          \A i \in Pots : InPercentRange(processed_values[i + 1])

\* throttle read at 1000 against a maximum of -50 below the idle point 0,
\* next to a panel reading of 2000 on the default range 0..100
C8_Witness ==
    /\ vjoy_dev.attached
    /\ calibration["throttle"].max = -50
    /\ calibration["throttle"].idle = 0
    /\ last_raw_values["throttle"] = 1000
    /\ cal_result.calibrated["throttle"] = RInt(0)
    /\ pot_config[0].calibrated_max = 100
    /\ last_control_panel_values[1] = 2000
    /\ processed_values[1] = RInt(100)

\* the throttle calibration is {min, idle, max} with one idle point for both
\* directions and no inversion
ThrottleProfile(min, idle, max) ==
    /\ calibration["reverse"].min = min
    /\ calibration["reverse"].idle = idle
    /\ calibration["throttle"].idle = idle
    /\ calibration["throttle"].max = max
    /\ ~invert_axis["throttle"] /\ ~invert_axis["reverse"]

\* forward and reverse readings of the last throttle line
Readings(forward, reverse) ==
    /\ cal_result.output["throttle"] = RInt(forward)
    /\ cal_result.output["reverse"] = RInt(reverse)

\* C9: with min < idle < max and no inversion, raw = min reads forward 0 and
\* reverse 100, raw = idle reads 0 and 0, raw = max reads forward 100 and
\* reverse 0
C9_EndpointsOfIdleSplit ==
    LET min == calibration["reverse"].min
        idle == calibration["throttle"].idle
        max == calibration["throttle"].max
    IN  Mapped /\ ThrottleProfile(min, idle, max) /\ min < idle /\ idle < max =>
            /\ (Raw("throttle") = min => Readings(0, 100))
            /\ (Raw("throttle") = idle => Readings(0, 0))
            /\ (Raw("throttle") = max => Readings(100, 0))

\* the profile {min 0, idle 200, max 1000} read at raw 0: full reverse
C9_Witness ==
    /\ Mapped
    /\ ThrottleProfile(0, 200, 1000)
    /\ Raw("throttle") = 0
    /\ Readings(0, 100)

\* C10: no calibration divides by zero; with max = idle a raw value above
\* idle calibrates to 100 for throttle (forward), prop and mixture, and with
\* idle = min a raw value below idle calibrates to reverse 100
C10_ZeroWidthCalibratesToFull ==
    Mapped =>
        /\ \A c \in CONTROLS : cal_result.calibrated[c] # ZeroDivisionError
        /\ \A c \in {"throttle", "prop", "mixture"} :
              calibration[c].max = calibration[c].idle
              /\ Raw(c) > calibration[c].idle
              => cal_result.calibrated[c] = RInt(100)
        /\ (calibration["reverse"].idle = calibration["reverse"].min
               /\ Raw("reverse") < calibration["reverse"].idle
               => cal_result.calibrated["reverse"] = RInt(100))

\* prop calibrated with max = idle = 0 and read at 600, and reverse with
\* idle = min read below idle, on the same line
C10_Witness ==
    /\ Mapped
    /\ calibration["prop"].max = 0 /\ calibration["prop"].idle = 0
    /\ Raw("prop") = 600
    /\ cal_result.calibrated["prop"] = RInt(100)
    /\ calibration["reverse"].idle = calibration["reverse"].min
    /\ Raw("reverse") < calibration["reverse"].idle
    /\ cal_result.calibrated["reverse"] = RInt(100)

\* the inversion flags with the flag of control c flipped
FlagFlipped(c) == [invert_axis EXCEPT ![c] = ~@]

\* C11: inversion is applied last and per control: the value reported for a
\* control is 100 minus its calibrated value when its inversion is on and
\* the calibrated value itself when it is off; the reverse reading is what
\* it would be with the throttle flag flipped, and the forward reading what
\* it would be with the reverse flag flipped
C11_InversionLastAndIndependent ==
    Mapped =>
        /\ \A c \in CONTROLS :
              cal_result.output[c] =
                  IF invert_axis[c]
                  THEN RSub(RInt(100), cal_result.calibrated[c])
                  ELSE cal_result.calibrated[c]
        /\ cal_result.output["reverse"] =
              process_throttle_input(calibration, FlagFlipped("throttle"),
                                     Raw("throttle")).reverse
        /\ cal_result.output["throttle"] =
              process_throttle_input(calibration, FlagFlipped("reverse"),
                                     Raw("throttle")).forward

\* throttle inverted and reverse not, read below an idle point of 200:
\* forward reads 100 while reverse keeps its calibrated value
C11_Witness ==
    /\ Mapped
    /\ invert_axis["throttle"] /\ ~invert_axis["reverse"]
    /\ calibration["reverse"].idle = 200
    /\ Raw("throttle") = 0
    /\ cal_result.calibrated["throttle"] = RInt(0)
    /\ cal_result.output["throttle"] = RInt(100)
    /\ cal_result.output["reverse"] = cal_result.calibrated["reverse"]
    /\ cal_result.output["reverse"] = RInt(100)

-----------------------------------------------------------------------------
(* Properties of degenerate and default panel ranges                       *)

\* raw clamped into the raw domain 0..1023
ClampedRaw(raw) == IMax(0, IMin(RawHigh, raw))

\* the percentage of raw on the full raw domain, inverted when asked
FullDomainPercent(raw, invert) ==
    LET pct == Rat(ClampedRaw(raw) * 100, RawHigh)
    IN  IF invert THEN RSub(RInt(100), pct) ELSE pct

\* channel i's range has calibrated_max <= calibrated_min
IsDegenerate(i) == pot_config[i].calibrated_max <= pot_config[i].calibrated_min

\* C12: for a channel whose range has calibrated_max <= calibrated_min a
\* processed line gives the value the full raw domain 0..1023 would give:
\* for an Axis channel raw * 100 / 1023 (100 minus it when inverted), for a
\* Switch or Button channel 100 or 0 as that value exceeds the threshold;
\* the value lies in [0, 100]
C12_DegenerateRangeUsesFullDomain ==
    \A i \in Pots :
        (op = "line" /\ IsDegenerate(i) /\ pot_config[i].type # "Disabled") =>
            LET raw == last_control_panel_values[i + 1]
                full == FullDomainPercent(raw, pot_config[i].invert)
            IN  /\ InPercentRange(processed_values[i + 1])
                /\ pot_config[i].type = "Axis"
                      => processed_values[i + 1] = full
                /\ pot_config[i].type \in {"Switch", "Button"}
                      => processed_values[i + 1] =
                            BinaryPercent(ExceedsThreshold(full, pot_config[i].threshold))

\* an Axis channel on the reversed range 900..100 reads raw 900 as
\* 90000 / 1023 percent
C12_Witness ==
    /\ op = "line"
    /\ pot_config[0].type = "Axis"
    /\ ~pot_config[0].invert
    /\ pot_config[0].calibrated_min = 900
    /\ pot_config[0].calibrated_max = 100
    /\ last_control_panel_values[1] = 900
    /\ processed_values[1] = Rat(90000, 1023)

\* C13: for an Axis channel whose range has zero width (calibrated_min =
\* calibrated_max) a processed line gives the midpoint 50 for every raw
\* value: 50 before inversion, hence 100 - 50 = 50 after it as well
C13_ZeroWidthIsMidpoint ==
    \A i \in Pots :
        (/\ op = "line"
         /\ pot_config[i].type = "Axis"
         /\ pot_config[i].calibrated_min = pot_config[i].calibrated_max)
            => processed_values[i + 1] = RInt(50)

\* C14: a panel configuration as the constructor creates it has 7 channels,
\* each on the range calibrated_min = 0, calibrated_max = 1023, so that an
\* Axis channel of it maps a raw value r to r * 100 / 1023
C14_FreshConfigSpansRawDomain ==
    pot_config = DefaultPotConfig =>
        /\ Cardinality(DOMAIN pot_config) = 7
        /\ \A i \in Pots :
              /\ pot_config[i].calibrated_min = 0
              /\ pot_config[i].calibrated_max = 1023
              /\ (op = "line" /\ vjoy_dev.attached /\ pot_config[i].type = "Axis")
                    => processed_values[i + 1] =
                          FullDomainPercent(last_control_panel_values[i + 1], FALSE)

-----------------------------------------------------------------------------
(* Properties of the profile mapping                                       *)

\* the last step mapped a throttle line for the given controller type
MappedFor(controller) == op = "throttle_line" /\ controller_type = controller

\* device value v is percentage p scaled from 0..100 onto 0..full_scale:
\* within the range, and the whole part of p * full_scale / 100
ScaledOnto(v, p, full_scale) ==
    /\ v \in 0..full_scale
    /\ v * 100 * p.d <= p.n * full_scale
    /\ p.n * full_scale < (v + 1) * 100 * p.d

\* C15: with the vJoy controller selected and the device attached, a mapped
\* throttle line writes forward to axis X, reverse to axis RX, prop to axis Y
\* and mixture to axis Z under every profile, each value scaled from 0..100
\* onto 0..32768 and within that range, and calls no setter of the gamepad
C15_VJoyMappingIgnoresProfile ==
    (MappedFor("VJOY") /\ vjoy_dev.attached) =>
        /\ ScaledOnto(vjoy_dev.wAxisX, cal_result.output["throttle"], 32768)
        /\ ScaledOnto(vjoy_dev.wAxisXRot, cal_result.output["reverse"], 32768)
        /\ ScaledOnto(vjoy_dev.wAxisY, cal_result.output["prop"], 32768)
        /\ ScaledOnto(vjoy_dev.wAxisZ, cal_result.output["mixture"], 32768)
        /\ vjoy_updates = 1
        /\ gamepad_calls = {}

\* under the DCS profile a line with the throttle at 80, prop at 50 and
\* mixture at 100 percent sets X, RX, Y, Z to 26214, 0, 16384, 32768
C15_Witness ==
    /\ MappedFor("VJOY")
    /\ vjoy_dev.attached
    /\ current_profile = "DCS"
    /\ invert_axis = DefaultInvertAxis
    /\ Raw("throttle") = 80 /\ Raw("prop") = 50 /\ Raw("mixture") = 100
    /\ vjoy_dev.wAxisX = 26214
    /\ vjoy_dev.wAxisXRot = 0
    /\ vjoy_dev.wAxisY = 16384
    /\ vjoy_dev.wAxisZ = 32768

NetThrottle == RSub(cal_result.output["throttle"], cal_result.output["reverse"])

\* C17: with the Xbox controller and the MSFS profile, after a mapped line
\* only one trigger is non-zero, selected by the sign of forward - reverse:
\* the left trigger is 0 when the net throttle is not negative and the right
\* trigger is 0 when it is; for forward = 80, reverse = 0 the right trigger
\* is round(80 * 32767 / 100) = round(26213.6) = 26214 and the left is 0
C17_MsfsOneTriggerBySign ==
    (MappedFor("XBOX") /\ current_profile = "MSFS") =>
        /\ RLe(RInt(0), NetThrottle) => gamepad.left_trigger = 0
        /\ RLt(NetThrottle, RInt(0)) => gamepad.right_trigger = 0
        /\ (/\ cal_result.output["throttle"] = RInt(80)
            /\ cal_result.output["reverse"] = RInt(0))
              => gamepad.right_trigger = 26214 /\ gamepad.left_trigger = 0

\* C18: with the Xbox controller and the X-Plane profile, after any
\* sequence of mapped lines, a forward sample followed by a reverse sample
\* included, at most one of the two triggers is non-zero
C18_XPlaneAtMostOneTrigger ==
    (MappedFor("XBOX") /\ current_profile = "XPLANE") =>
        (gamepad.left_trigger = 0 \/ gamepad.right_trigger = 0)

\* the percentage apply_mapping derives from the last raw value of prop or
\* mixture: calibrated, then inverted
Reported(c) ==
    apply_inversion(invert_axis, calibrate_simple(calibration, Raw(c), c), c)

\* the last step ran a mapping function of the gamepad for the profile,
\* whether or not its last call raised
GamepadMapped(profile) ==
    /\ op \in {"throttle_line", "throttle_line_raised"}
    /\ controller_type = "XBOX"
    /\ current_profile = profile

\* C19: with the Xbox controller and the IL-2 profile, after a mapped line
\* the left trigger is the mixture percentage and the right trigger the prop
\* percentage, each scaled linearly from 0..100 onto the trigger range
\* 0..32767: 0 percent gives 0 and 100 percent gives 32767
C19_Il2TriggersLinear ==
    GamepadMapped("IL2") =>
        /\ ScaledOnto(gamepad.left_trigger, Reported("mixture"), 32767)
        /\ ScaledOnto(gamepad.right_trigger, Reported("prop"), 32767)
        /\ Reported("mixture") = RInt(0) => gamepad.left_trigger = 0
        /\ Reported("mixture") = RInt(100) => gamepad.left_trigger = 32767
        /\ Reported("prop") = RInt(0) => gamepad.right_trigger = 0
        /\ Reported("prop") = RInt(100) => gamepad.right_trigger = 32767

-----------------------------------------------------------------------------
(* Properties of an absent vJoy device                                     *)

\* the last throttle line went through the vJoy mapping
VJoyMapped ==
    /\ op = "throttle_line"
    /\ (controller_type = "VJOY" \/ current_profile = "WAR_THUNDER")

\* C20: with the vJoy device absent, a throttle line that goes through the
\* vJoy mapping still returns the calibrated forward, reverse, prop and
\* mixture values, and a panel line still returns the processed percentage
\* of every channel; neither writes to the device
C20_AbsentSinkStillComputes ==
    ~vjoy_dev.attached =>
        /\ VJoyMapped =>
              LET thr == process_throttle_input(calibration, invert_axis,
                                                Raw("throttle"))
              IN  /\ cal_result.output["throttle"] = thr.forward
                  /\ cal_result.output["reverse"] = thr.reverse
                  /\ cal_result.output["prop"] = Reported("prop")
                  /\ cal_result.output["mixture"] = Reported("mixture")
                  /\ vjoy_updates = 0
                  /\ vjoy_dev = VJoyNone
        /\ op = "line" =>
              /\ \A i \in Pots :
                    processed_values[i + 1] =
                        process_pot_value(pot_config, i, last_control_panel_values[i + 1])
              /\ vjoy_updates = 0
              /\ vjoy_dev = VJoyNone

-----------------------------------------------------------------------------
(* Properties of flushing, profile selection and configuration             *)

\* the last step ran one of the four mapping functions of the gamepad
AnyGamepadMapped ==
    \E profile \in {"MSFS", "DCS", "XPLANE", "IL2"} : GamepadMapped(profile)

\* C21: writes are batched per input sample and flushed once on the sink
\* written: a processed panel line and a throttle line through the vJoy
\* mapping call update() of the attached vJoy device exactly once, and a
\* throttle line through a gamepad mapping function calls update() of the
\* gamepad after its setters
C21_OneFlushPerSample ==
    /\ (op = "line" /\ vjoy_dev.attached) => vjoy_updates = 1
    /\ (VJoyMapped /\ vjoy_dev.attached) => vjoy_updates = 1
    /\ AnyGamepadMapped => "update" \in gamepad_calls

\* the profile that follows each profile in the cycle
FollowingProfile(profile) ==
    CASE profile = "MSFS" -> "DCS"
      [] profile = "DCS" -> "XPLANE"
      [] profile = "XPLANE" -> "IL2"
      [] profile = "IL2" -> "WAR_THUNDER"
      [] profile = "WAR_THUNDER" -> "MSFS"

\* the profile five calls of next_profile after profile
FiveCallsLater(profile) ==
    FollowingProfile(FollowingProfile(FollowingProfile(
        FollowingProfile(FollowingProfile(profile)))))

\* C22: next_profile moves to the next of the five profiles in the order
\* MSFS, DCS, X-Plane, IL-2, War Thunder and from the last to the first, so
\* that five calls in a row lead back to the profile they started from, and
\* nothing else changes the profile; the controller type is one of two and
\* changes only in set_controller_type
C22_ProfilesCycleInOrder ==
    [][/\ op' = "next_profile" =>
              /\ current_profile' = FollowingProfile(current_profile)
              /\ FiveCallsLater(current_profile) = current_profile
              /\ controller_type' = controller_type
       /\ current_profile' # current_profile => op' = "next_profile"
       /\ controller_type' # controller_type => op' = "set_controller_type"
       /\ controller_type' \in {"XBOX", "VJOY"}
       /\ Cardinality(ControllerType) = 2
      ]_vars

\* next_profile has just wrapped round to the first profile, after the vJoy
\* controller was selected and a throttle line mapped
C22_Witness ==
    /\ op = "next_profile"
    /\ current_profile = "MSFS"
    /\ controller_type = "VJOY"
    /\ Raw("throttle") = 80

\* the configuration: calibration bounds, inversion flags, every channel's
\* configuration, the active profile and the controller type
Configuration ==
    <<calibration, invert_axis, pot_config, current_profile, controller_type>>

\* C23: processing a sample never changes the configuration: a throttle
\* line (apply_mapping) and a panel line (process_control_panel) leave the
\* calibration bounds, the inversion flags, every channel's configuration,
\* the active profile and the controller type as they were; each of them
\* changes only in the command that sets it
C23_SamplesLeaveConfiguration ==
    [][/\ op' \in {"line", "throttle_line", "throttle_line_raised"}
              => UNCHANGED Configuration
       /\ calibration' # calibration => op' = "set_idle_point"
       /\ invert_axis' # invert_axis => op' = "toggle_inversion"
       /\ pot_config' # pot_config => op' = "set_pot_type"
       /\ current_profile' # current_profile => op' = "next_profile"
       /\ controller_type' # controller_type => op' = "set_controller_type"
      ]_vars

\* a throttle line and then a panel line processed for a channel made a
\* Switch, with the DCS profile selected and prop inverted
C23_Witness ==
    /\ op = "line"
    /\ last_control_panel_values[1] = 600
    /\ pot_config[0].type = "Switch"
    /\ current_profile = "DCS"
    /\ invert_axis["prop"]
    /\ Raw("prop") = 50
    /\ cal_result.output["prop"] = RInt(50)

-----------------------------------------------------------------------------
(* Properties of the two reader threads                                    *)

\* the field of the device data that holds axis
GetAxis(dev, axis) ==
    CASE axis = "X" -> dev.wAxisX
      [] axis = "Y" -> dev.wAxisY
      [] axis = "Z" -> dev.wAxisZ
      [] axis = "RX" -> dev.wAxisXRot
      [] axis = "RY" -> dev.wAxisYRot
      [] axis = "RZ" -> dev.wAxisZRot

\* the axes the panel reader writes under the configuration in force
PanelAxes ==
    {pot_config[i].vjoy_axis :
        i \in {j \in Pots : /\ pot_config[j].type = "Axis"
                            /\ pot_config[j].vjoy_axis # None}}

\* the axes the throttle reader writes through the vJoy mapping
ThrottleAxes == {"X", "RX", "Y", "Z"}

\* C24: the throttle reader and the panel reader share no field of the
\* output device: a throttle line leaves every axis the panel reader writes
\* and the button word as they were, and a panel line leaves the axes X, RX,
\* Y and Z of the throttle reader as they were, under every channel
\* configuration
C24_ReadersShareNoDeviceField ==
    [][/\ op' = "throttle_line" =>
              /\ \A axis \in PanelAxes :
                    GetAxis(vjoy_dev', axis) = GetAxis(vjoy_dev, axis)
              /\ vjoy_dev'.lButtons = vjoy_dev.lButtons
       /\ (op' = "line" /\ controller_type = "VJOY") =>
              \A axis \in ThrottleAxes :
                  GetAxis(vjoy_dev', axis) = GetAxis(vjoy_dev, axis)
      ]_vars

\* the commands of the GUI thread that change the toggle latches, the
\* stored threshold states or the button word
PanelStateCommands ==
    {"reset_toggle_states", "release_button_bit", "set_pot_button_id"}

\* C25: the channel-level state of the panel (toggle latches, stored
\* threshold states, button word of the device) has one writer at a time:
\* never more than one panel reader loop runs, also after
\* reconnect_control_panel and reset_control_panel_connection, and no
\* command of the GUI thread changes that state while a panel line is being
\* processed
C25_PanelStateHasOneWriter ==
    [][/\ control_panel_loops' <= 1
       /\ op' \in PanelStateCommands => panel_call = {}
      ]_vars

\* C26: saving the settings and loading them into a fresh instance gives
\* back the configuration that was saved: every channel's kind, inversion,
\* threshold, calibrated range, axis and button id, the active profile, the
\* controller type and the calibration and inversion of each control
C26_SaveLoadRoundTrip ==
    [][op = "save_settings" /\ op' = "load_settings"
          => Configuration' = Configuration]_vars

\* C27: with the inversion of throttle and reverse off, whatever
\* calibration commands were given (idle for throttle, idle for reverse,
\* max forward, max reverse, reset), no throttle sample is reported with
\* both a non-zero forward and a non-zero reverse percentage
C27_ForwardAndReverseExclude ==
    (/\ op = "throttle_line"
     /\ ~invert_axis["throttle"]
     /\ ~invert_axis["reverse"])
        => ~(/\ RGt(cal_result.output["throttle"], RInt(0))
             /\ RGt(cal_result.output["reverse"], RInt(0)))

\* C28: every stick coordinate and trigger value the MSFS, DCS, X-Plane and
\* IL-2 mappings set lies in the native range of the gamepad, -32768..32767
\* for a stick coordinate and 0..32767 for a trigger, also when the net
\* throttle is negative
C28_GamepadValuesInRange ==
    AnyGamepadMapped =>
        /\ \A stick \in {"left_joystick", "right_joystick"} :
              \A coordinate \in {"x_value", "y_value"} :
                  gamepad[stick][coordinate] \in -32768..32767
        /\ \A trigger \in {"left_trigger", "right_trigger"} :
              gamepad[trigger] \in 0..32767

\* C29: while the controls are paused by toggle_controls, a panel line
\* writes no axis and no button of the device and changes no toggle latch,
\* so that on resuming the panel continues from the state held at pausing
C29_PausedPanelWritesNothing ==
    [][(~gui_controls_active /\ op' = "line")
          => /\ vjoy_dev' = vjoy_dev
             /\ button_states' = button_states
             /\ \A i \in Pots : writes'[i] = NoWrite
      ]_vars

\* the buttons the device has, numbered as the bits of lButtons plus one
DeviceButtons == 1..32

\* channel i is the only Switch or Button channel on its button, a button
\* of the device
OwnsButton(i) ==
    /\ pot_config[i].type \in {"Switch", "Button"}
    /\ pot_config[i].button_id # None
    /\ ButtonIdInt(pot_config[i].button_id) \in DeviceButtons
    /\ \A j \in Pots \ {i} :
          ~TargetsButton(j, ButtonIdInt(pot_config[i].button_id))

\* C30: a processed panel line leaves every bit of the button word that no
\* Switch or Button channel targets as it was, and after the line the bit of
\* every Switch or Button channel that is alone on a button in 1..32 equals
\* the output state of that channel
C30_ButtonBitsFollowTheirChannel ==
    [][op' = "line" =>
          /\ \A b \in DeviceButtons :
                (\A i \in Pots : ~TargetsButton(i, b))
                    => (b \in vjoy_dev'.lButtons <=> b \in vjoy_dev.lButtons)
          /\ \A i \in Pots :
                OwnsButton(i)
                    => (ButtonIdInt(pot_config[i].button_id) \in vjoy_dev'.lButtons
                          <=> LatchIn(button_states', i) = 1)
      ]_vars

\* a line has set the bit of a channel that owns its button while another
\* bit, which no channel targets, was set and stayed set
C30_Witness ==
    /\ op = "line"
    /\ \E i \in Pots :
          /\ OwnsButton(i)
          /\ LatchIn(button_states, i) = 1
          /\ ButtonIdInt(pot_config[i].button_id) \in vjoy_dev.lButtons
    /\ \E b \in vjoy_dev.lButtons : \A i \in Pots : ~TargetsButton(i, b)

====
